---- MODULE Spec2Model ----
(***************************************************************************)
(* A model of go/vt/tabletmanager/agent.go (ActionAgent): the health       *)
(* stream registry and its non-blocking broadcast, the topology            *)
(* synchronisation done by Start and refreshTablet, and the accessors and  *)
(* the three locks (actionMutex, mutex, healthStreamMutex).                *)
(*                                                                         *)
(* Pointers are modelled by a heap: GetTablet returns a fresh object, and  *)
(* agent._tablet, oldTablet, ti and newTablet are references into it, so   *)
(* that an assignment through one reference is seen through the others.   *)
(***************************************************************************)
EXTENDS Integers, Sequences, FiniteSets, TLC

\* ---------------------------------------------------------------- bounds
MaxSubscribe == 2      \* Subscribe calls in one run
MaxBroadcast == 2      \* BroadcastHealthStreamReply calls in one run
ChanCap == 1           \* capacity of a subscriber's channel
MaxRefresh == 2        \* actions that end in refreshTablet, in one run
MaxExt == 1            \* writes to the tablet record by other processes, in one run

\* --------------------------------------------------------------- threads
Bcasters == {"b1", "b2"}        \* threads that broadcast health replies
Rpcs == {"r1", "r2"}            \* threads that run an action and then refreshTablet
HealthCheckers == {"b1"}        \* the broadcasting thread that runs the health checks
AgentRpcs == {"r1"}             \* the RPC thread in the runs about the agent as a whole
Readers == {"a1"}               \* threads that call the read-only accessors
Threads == {"main"} \cup Rpcs \cup Readers  \* "main" constructs the agent: it runs Start

VARIABLES
    \* health stream registry (agent.go 97-100)
    healthStreamMutex,   \* "free" or the thread that holds it
    healthStreamIndex,   \* next handle
    healthStreamMap,     \* handle -> channel
    chans,               \* channel -> queued replies (oldest first)
    \* BroadcastHealthStreamReply, per broadcasting thread
    bpc,                 \* "idle" | "lock" | "send" | "hc_unlock"
    hsr,                 \* the reply being broadcast
    todo,                \* channels the range loop has not visited yet
    \* history (not program state)
    nBcast,              \* broadcasts called so far; a reply is its call number
    outcome,             \* per thread: visited channel -> "sent" | "dropped"
    history,             \* Subscribe / Unsubscribe calls in the order they returned
    unsubAt,             \* channel -> nBcast when the Unsubscribe of its handle returned
    lockOrder,           \* the replies, in the order their broadcasts took the lock
    recvd,               \* channel -> the replies received from it, for the channels
                         \* registered before any broadcast and never found full
    \* topology store: the tablet record of agent.TabletAlias, or NoRecord
    store,
    \* the objects GetTablet has returned (*topo.TabletInfo and its *topo.Tablet)
    heap,
    \* the agent's state (agent.go 79-88)
    actionMutex,         \* "free" or the thread that holds it
    mutex,               \* "free" or the thread that holds it
    _tablet,             \* Nil or a reference into heap
    \* the result of the latest health check (agent.go 90-95)
    _healthy,            \* an error, NoErr when healthy
    _replicationDelay,   \* seconds
    \* threads
    args,                \* Start's arguments: mysqlPort, vtPort, vtsPort
    pc,                  \* per thread: where it is
    loc,                 \* per thread: its local variables
    \* history (not program state)
    obs,                 \* per thread: what the current call has done so far
    nRefresh,            \* refreshTablet calls so far
    nExt,                \* writes by other processes so far
    healthStored         \* whether a health check has stored its result yet

orderVars == <<lockOrder, recvd>>

hsVars == <<healthStreamMutex, healthStreamIndex, healthStreamMap, chans,
            bpc, hsr, todo, nBcast, outcome, history, unsubAt, orderVars>>

hcVars == <<_healthy, _replicationDelay, healthStored>>

tabletVars == <<store, heap, actionMutex, mutex, _tablet, args, pc, loc, obs,
                nRefresh, nExt, hcVars>>

vars == <<hsVars, tabletVars>>

Empty == [x \in {} |-> 0]       \* the empty map

\* ------------------------------------------------------------ health stream

\* select { case c <- hsr: default: } can always proceed (agent.go 459-462).
CanSendBlocking(q) == Len(q) < ChanCap
CanSend(q) == TRUE

\* The queue of a channel after the non-blocking send of r.
SendOverwrite(q, r) == IF Len(q) < ChanCap THEN Append(q, r) ELSE Append(Tail(q), r)
SendNonBlocking(q, r) == IF Len(q) < ChanCap THEN Append(q, r) ELSE q

\* The channels "for _, c := range agent.healthStreamMap" visits.
BroadcastTargetsEverRegistered == DOMAIN chans
BroadcastTargets == {healthStreamMap[h] : h \in DOMAIN healthStreamMap}

\* The handle Subscribe returns.
NextHandleBySize == Cardinality(DOMAIN healthStreamMap)
NextHandle == healthStreamIndex

\* Subscribe: under healthStreamMutex, register a new channel under the next
\* handle and advance the counter.
Subscribe ==
    /\ healthStreamMutex = "free"
    /\ healthStreamIndex < MaxSubscribe
    /\ LET id == NextHandle
           c == Cardinality(DOMAIN chans)    \* a channel made for this subscription
       IN /\ healthStreamMap' = [h \in DOMAIN healthStreamMap \cup {id} |->
                                    IF h = id THEN c ELSE healthStreamMap[h]]
          /\ chans' = [x \in DOMAIN chans \cup {c} |->
                          IF x = c THEN <<>> ELSE chans[x]]
          /\ history' = Append(history, <<"sub", id, c>>)
          /\ recvd' = IF lockOrder = <<>>
                       THEN [x \in DOMAIN recvd \cup {c} |-> IF x = c THEN <<>> ELSE recvd[x]]
                       ELSE recvd
    /\ healthStreamIndex' = healthStreamIndex + 1
    /\ UNCHANGED <<healthStreamMutex, bpc, hsr, todo, nBcast, outcome, unsubAt, lockOrder,
                   tabletVars>>

\* Unsubscribe(h): under healthStreamMutex, delete the entry of h.
Unsubscribe(h) ==
    /\ healthStreamMutex = "free"
    /\ h \in DOMAIN healthStreamMap
    /\ healthStreamMap' = [k \in DOMAIN healthStreamMap \ {h} |-> healthStreamMap[k]]
    /\ history' = Append(history, <<"unsub", h, healthStreamMap[h]>>)
    /\ unsubAt' = [c \in DOMAIN unsubAt \cup {healthStreamMap[h]} |->
                      IF c = healthStreamMap[h] THEN nBcast ELSE unsubAt[c]]
    /\ recvd' = [x \in DOMAIN recvd \ {healthStreamMap[h]} |-> recvd[x]]
    /\ UNCHANGED <<healthStreamMutex, healthStreamIndex, chans, bpc, hsr, todo,
                   nBcast, outcome, lockOrder, tabletVars>>

\* A subscriber takes the oldest reply off its channel.
Receive(c) ==
    /\ c \in DOMAIN chans
    /\ chans[c] # <<>>
    /\ chans' = [chans EXCEPT ![c] = Tail(@)]
    /\ recvd' = IF c \in DOMAIN recvd
                 THEN [recvd EXCEPT ![c] = Append(@, Head(chans[c]))]
                 ELSE recvd
    /\ UNCHANGED <<healthStreamMutex, healthStreamIndex, healthStreamMap, bpc, hsr,
                   todo, nBcast, outcome, history, unsubAt, lockOrder, tabletVars>>

\* BroadcastHealthStreamReply(hsr) is called.
BroadcastCall(b) ==
    /\ bpc[b] = "idle"
    /\ nBcast < MaxBroadcast
    /\ nBcast' = nBcast + 1
    /\ hsr' = [hsr EXCEPT ![b] = nBcast + 1]
    /\ bpc' = [bpc EXCEPT ![b] = "lock"]
    /\ UNCHANGED <<healthStreamMutex, healthStreamIndex, healthStreamMap, chans,
                   todo, outcome, history, unsubAt, orderVars, tabletVars>>

\* Whether agent.healthStreamMutex.Lock() returns now.
HealthStreamLockIgnored == TRUE
HealthStreamLockFree == healthStreamMutex = "free"

\* agent.healthStreamMutex.Lock(), and the range loop starts.
BroadcastLock(b) ==
    /\ bpc[b] = "lock"
    /\ HealthStreamLockFree
    /\ healthStreamMutex' = b
    /\ lockOrder' = Append(lockOrder, hsr[b])
    /\ todo' = [todo EXCEPT ![b] = BroadcastTargets]
    /\ outcome' = [outcome EXCEPT ![b] = Empty]
    /\ bpc' = [bpc EXCEPT ![b] = "send"]
    /\ UNCHANGED <<healthStreamIndex, healthStreamMap, chans, hsr, nBcast, history,
                   unsubAt, recvd, tabletVars>>

\* One iteration of the range loop: the non-blocking send to one channel.
BroadcastSend(b) ==
    /\ bpc[b] = "send"
    /\ \E c \in todo[b] :
          /\ CanSend(chans[c])
          /\ chans' = [chans EXCEPT ![c] = SendNonBlocking(@, hsr[b])]
          /\ outcome' = [outcome EXCEPT ![b] =
                            [k \in DOMAIN @ \cup {c} |->
                                IF k = c
                                THEN (IF chans'[c] = chans[c] THEN "dropped" ELSE "sent")
                                ELSE @[k]]]
          /\ todo' = [todo EXCEPT ![b] = @ \ {c}]
          /\ recvd' = IF chans'[c] = chans[c]
                       THEN [x \in DOMAIN recvd \ {c} |-> recvd[x]]
                       ELSE recvd
    /\ UNCHANGED <<healthStreamMutex, healthStreamIndex, healthStreamMap, bpc, hsr,
                   nBcast, history, unsubAt, lockOrder, tabletVars>>

\* The loop is over: the deferred healthStreamMutex.Unlock().
BroadcastUnlock(b) ==
    /\ bpc[b] = "send"
    /\ todo[b] = {}
    /\ healthStreamMutex' = "free"
    /\ bpc' = [bpc EXCEPT ![b] = "idle"]
    /\ hsr' = [hsr EXCEPT ![b] = 0]
    /\ outcome' = [outcome EXCEPT ![b] = Empty]
    /\ UNCHANGED <<healthStreamIndex, healthStreamMap, chans, todo, nBcast,
                   history, unsubAt, orderVars, tabletVars>>

\* HealthStreamMapSize: len(healthStreamMap) under the lock.
HealthStreamMapSize == Cardinality(DOMAIN healthStreamMap)

InitHealth ==
    /\ healthStreamMutex = "free"
    /\ healthStreamIndex = 0
    /\ healthStreamMap = Empty
    /\ chans = Empty
    /\ bpc = [b \in Bcasters |-> "idle"]
    /\ hsr = [b \in Bcasters |-> 0]
    /\ todo = [b \in Bcasters |-> {}]
    /\ nBcast = 0
    /\ outcome = [b \in Bcasters |-> Empty]
    /\ history = <<>>
    /\ unsubAt = Empty
    /\ lockOrder = <<>>
    /\ recvd = Empty

\* ------------------------------------------------------------------ records

Nil == 0                        \* the nil pointer
EmptyRef == -1                  \* the &topo.Tablet{} that Start makes
ObjIds == 1 .. 4                \* references to the objects GetTablet returns
NoErr == <<>>                   \* a nil error; an error is the list of the parts of its text
NoRecord == [exists |-> FALSE]

\* topo.Tablet{}: every field has its zero value (a nil Portmap reads as empty).
ZeroTablet ==
    [Hostname |-> "", IPAddr |-> "", Portmap |-> Empty, Type |-> "", Keyspace |-> "",
     version |-> 0]

PortmapGet(pm, k) == IF k \in DOMAIN pm THEN pm[k] ELSE 0
PortmapPut(pm, k, v) == [x \in DOMAIN pm \cup {k} |-> IF x = k THEN v ELSE pm[x]]
PortmapDelete(pm, k) == [x \in DOMAIN pm \ {k} |-> pm[x]]

\* The record a reference points to.
Deref(h, ref) == IF ref \in ObjIds THEN h[ref] ELSE ZeroTablet

\* TabletInfo.IsRunningQueryService: the types that serve queries.
IsRunningQueryService(tablet) == tablet.Type \in {"master", "replica", "rdonly"}

\* A write of record r to the topology store: the store keeps it under the next
\* version.
TopoWrite(r) == [r EXCEPT !.version = store.version + 1]

LocInit ==
    [ret |-> <<>>, retErr |-> "", acc |-> Nil, oldTablet |-> Nil, ti |-> Nil,
     updated |-> Nil, newTablet |-> Nil, mport |-> 0, reason |-> "", err |-> NoErr,
     hostname |-> "", ipAddr |-> ""]

ObsInit ==
    [cbs |-> <<>>, readRec |-> NoRecord, readFailed |-> FALSE, mport |-> 0,
     wrote |-> "none", portChecks |-> 0, storeWrites |-> 0, extAtWrite |-> 0,
     regPre |-> NoRecord, extAtReg |-> 0, extAtReload |-> 0, vsa |-> "none",
     validate |-> "none", reason |-> "", method |-> "", size |-> 0,
     healthy |-> NoErr, delay |-> 0, storedAtRead |-> FALSE]

RefFields == {"acc", "oldTablet", "ti", "updated", "newTablet"}

\* The objects something still points to, given the locals l.
Refs(l, cached) == ({cached} \cup {l[t][f] : t \in Threads, f \in RefFields}) \cap ObjIds

\* The heap without the objects nothing points to any more.
Collect(h, l, cached) == [o \in ObjIds |-> IF o \in Refs(l, cached) THEN h[o] ELSE ZeroTablet]

\* A reference no one holds, for the next object.
NewRef == CHOOSE o \in ObjIds \ Refs(loc, _tablet) :
              \A x \in ObjIds \ Refs(loc, _tablet) : o <= x

\* The function returns err: its locals are gone, what it did is remembered.
Return(t, label, err) ==
    /\ pc' = [pc EXCEPT ![t] = label]
    /\ loc' = [loc EXCEPT ![t] = [LocInit EXCEPT !.err = err]]
    /\ heap' = Collect(heap, loc', _tablet)

\* ------------------------------------------------ state store accessors

\* readTablet: topo.GetTablet(ctx, agent.TopoServer, agent.TabletAlias).
ReadTabletGet(t) ==
    /\ pc[t] = "read_get"
    /\ \E ok \in BOOLEAN :
          IF ok /\ store # NoRecord
          THEN /\ heap' = [heap EXCEPT ![NewRef] = store]
               /\ loc' = [loc EXCEPT ![t].ti = NewRef]
               /\ obs' = [obs EXCEPT ![t].readRec = store, ![t].extAtReload = nExt]
               /\ pc' = [pc EXCEPT ![t] = "read_set"]
          ELSE /\ loc' = [loc EXCEPT ![t].ti = Nil,
                                      ![t].err = <<IF store = NoRecord
                                                   THEN "node doesn't exist"
                                                   ELSE "deadline exceeded">>]
               /\ obs' = [obs EXCEPT ![t].readFailed = TRUE]
               /\ pc' = [pc EXCEPT ![t] = loc[t].retErr]
               /\ heap' = heap
    /\ UNCHANGED <<hsVars, hcVars, store, actionMutex, mutex, _tablet, args, nRefresh, nExt>>

\* readTablet: agent.mutex.Lock(); agent._tablet = tablet.
ReadTabletSet(t) ==
    /\ pc[t] = "read_set"
    /\ mutex = "free"
    /\ mutex' = t
    /\ _tablet' = loc[t].ti
    /\ pc' = [pc EXCEPT ![t] = "read_unlock"]
    /\ UNCHANGED <<hsVars, hcVars, store, heap, actionMutex, args, loc, obs, nRefresh, nExt>>

\* Tablet(): agent.mutex.Lock(); tablet := agent._tablet.
TabletLock(t) ==
    /\ pc[t] = "tab_lock"
    /\ mutex = "free"
    /\ mutex' = t
    /\ loc' = [loc EXCEPT ![t].acc = _tablet]
    /\ pc' = [pc EXCEPT ![t] = "tab_unlock"]
    /\ UNCHANGED <<hsVars, hcVars, store, heap, actionMutex, _tablet, args, obs, nRefresh, nExt>>

\* updateState: agent.mutex.Lock(); newTablet := agent._tablet.Tablet.
UpdateStateLockDeferred(t) ==
    /\ pc[t] = "upd_lock"
    /\ mutex = "free"
    /\ mutex' = t
    /\ loc' = [loc EXCEPT ![t].newTablet = _tablet, ![t].ret = Tail(@)]
    /\ pc' = [pc EXCEPT ![t] = Head(loc[t].ret)]
    /\ UNCHANGED <<hsVars, hcVars, store, heap, actionMutex, _tablet, args, obs, nRefresh, nExt>>
UpdateStateLock(t) ==
    /\ pc[t] = "upd_lock"
    /\ mutex = "free"
    /\ mutex' = t
    /\ loc' = [loc EXCEPT ![t].newTablet = _tablet]
    /\ pc' = [pc EXCEPT ![t] = "upd_unlock"]
    /\ UNCHANGED <<hsVars, hcVars, store, heap, actionMutex, _tablet, args, obs, nRefresh, nExt>>

\* Healthy(): agent.mutex.Lock(); defer agent.mutex.Unlock(); the two fields
\* are read for the return.
HealthyLockNoDefer(t) ==
    /\ pc[t] = "h_lock"
    /\ mutex = "free"
    /\ mutex' = t
    /\ obs' = [obs EXCEPT ![t].healthy = _healthy, ![t].delay = _replicationDelay,
                          ![t].storedAtRead = healthStored]
    /\ pc' = [pc EXCEPT ![t] = Head(loc[t].ret)]
    /\ loc' = [loc EXCEPT ![t].ret = Tail(@)]
    /\ UNCHANGED <<hsVars, hcVars, store, heap, actionMutex, _tablet, args, nRefresh, nExt>>
HealthyLock(t) ==
    /\ pc[t] = "h_lock"
    /\ mutex = "free"
    /\ mutex' = t
    /\ obs' = [obs EXCEPT ![t].healthy = _healthy, ![t].delay = _replicationDelay,
                          ![t].storedAtRead = healthStored]
    /\ pc' = [pc EXCEPT ![t] = "h_unlock"]
    /\ UNCHANGED <<hsVars, hcVars, store, heap, actionMutex, _tablet, args, loc,
                   nRefresh, nExt>>

\* Where a thread that holds agent.mutex is: right before its Unlock().
UnlockLabels == {"read_unlock", "tab_unlock", "upd_unlock", "set_unlock", "h_unlock"}

\* agent.mutex.Unlock(), and on to what follows the locked section.
MutexUnlock(t) ==
    /\ pc[t] \in UnlockLabels
    /\ mutex = t
    /\ mutex' = "free"
    /\ pc' = [pc EXCEPT ![t] = Head(loc[t].ret)]
    /\ loc' = [loc EXCEPT ![t].ret = Tail(@)]
    /\ UNCHANGED <<hsVars, hcVars, store, heap, actionMutex, _tablet, args, obs, nRefresh, nExt>>

\* updateState: agent.changeCallback(ctx, oldTablet, newTablet) is entered.
CallbackEnter(t) ==
    /\ pc[t] = "cb_enter"
    /\ obs' = [obs EXCEPT ![t].cbs =
                  Append(@, [old |-> Deref(heap, loc[t].oldTablet),
                             new |-> Deref(heap, loc[t].newTablet),
                             reason |-> loc[t].reason])]
    /\ pc' = [pc EXCEPT ![t] = "in_cb"]
    /\ UNCHANGED <<hsVars, hcVars, store, heap, actionMutex, mutex, _tablet, args, loc,
                   nRefresh, nExt>>

\* The callback returns, with an error or without.
CallbackReturn(t) ==
    /\ pc[t] = "in_cb"
    /\ \E ok \in BOOLEAN :
          loc' = [loc EXCEPT ![t].err = IF ok THEN NoErr ELSE <<"callback failed">>,
                             ![t].ret = Tail(@)]
    /\ pc' = [pc EXCEPT ![t] = Head(loc[t].ret)]
    /\ UNCHANGED <<hsVars, hcVars, store, heap, actionMutex, mutex, _tablet, args, obs,
                   nRefresh, nExt>>

\* ------------------------------------------------------------------- Start

\* The update function f that Start hands to UpdateTabletFields.
RegisterFieldsWholesale(tablet, hostname, ipAddr, mysqlPort, vtPort, vtsPort) ==
    [ZeroTablet EXCEPT !.Hostname = hostname, !.IPAddr = ipAddr,
        !.Portmap = PortmapPut(PortmapPut(PortmapPut(Empty, "mysql", mysqlPort),
                                          "vt", vtPort), "vts", vtsPort)]
RegisterFieldsAlwaysMysql(tablet, hostname, ipAddr, mysqlPort, vtPort, vtsPort) ==
    LET p1 == PortmapPut(tablet.Portmap, "mysql", mysqlPort)
        p2 == PortmapPut(p1, "vt", vtPort)
        p3 == IF vtsPort # 0 THEN PortmapPut(p2, "vts", vtsPort) ELSE PortmapDelete(p2, "vts")
    IN [tablet EXCEPT !.Hostname = hostname, !.IPAddr = ipAddr, !.Portmap = p3]
RegisterFields(tablet, hostname, ipAddr, mysqlPort, vtPort, vtsPort) ==
    LET p1 == IF mysqlPort # 0
              THEN PortmapPut(tablet.Portmap, "mysql", mysqlPort)
              ELSE tablet.Portmap
        p2 == PortmapPut(p1, "vt", vtPort)
        p3 == IF vtsPort # 0 THEN PortmapPut(p2, "vts", vtsPort) ELSE PortmapDelete(p2, "vts")
    IN [tablet EXCEPT !.Hostname = hostname, !.IPAddr = ipAddr, !.Portmap = p3]

\* What Start does with the error of verifyServingAddrs.
StartAfterServingAddrsSwallow(err) == [pc |-> "upd_lock", err |-> NoErr]
StartAfterServingAddrs(err) ==
    IF err # NoErr THEN [pc |-> "s_fail", err |-> err] ELSE [pc |-> "upd_lock", err |-> NoErr]

\* What Start does with the error of the initial updateState: it logs it.
StartAfterUpdateStateFatal(err) == err
StartAfterUpdateState(err) == NoErr

\* The old record of the initial updateState: oldTablet := &topo.Tablet{}.
StartOldTabletCached(cached) == cached
StartOldTablet(cached) == EmptyRef

\* Start is called: the first readTablet.
StartCall ==
    /\ pc["main"] = "s_begin"
    /\ pc' = [pc EXCEPT !["main"] = "read_get"]
    /\ loc' = [loc EXCEPT !["main"].ret = <<"s_resolve">>, !["main"].retErr = "s_fail",
                          !["main"].reason = "Start"]
    /\ UNCHANGED <<hsVars, hcVars, store, heap, actionMutex, mutex, _tablet, args, obs,
                   nRefresh, nExt>>

\* A step of Start has failed: Start returns the error.
StartFail ==
    /\ pc["main"] = "s_fail"
    /\ Return("main", "s_ret", loc["main"].err)
    /\ UNCHANGED <<hsVars, hcVars, store, actionMutex, mutex, _tablet, args, obs, nRefresh, nExt>>

\* The hostname (the flag, or netutil.FullyQualifiedHostname) and
\* net.LookupHost; then agent.Tablet().Alias for UpdateTabletFields.
StartResolve ==
    /\ pc["main"] = "s_resolve"
    /\ \E ok \in BOOLEAN :
          IF ok
          THEN /\ loc' = [loc EXCEPT !["main"].hostname = args.hostname,
                                      !["main"].ipAddr = args.ipAddr,
                                      !["main"].ret = <<"s_register">>]
               /\ pc' = [pc EXCEPT !["main"] = "tab_lock"]
          ELSE /\ loc' = [loc EXCEPT !["main"].err = <<"no such host">>]
               /\ pc' = [pc EXCEPT !["main"] = "s_fail"]
    /\ UNCHANGED <<hsVars, hcVars, store, heap, actionMutex, mutex, _tablet, args, obs,
                   nRefresh, nExt>>

\* agent.TopoServer.UpdateTabletFields(alias, f): the store applies f to the
\* record it holds and keeps the result; then the second readTablet.
StartRegister ==
    /\ pc["main"] = "s_register"
    /\ \E ok \in BOOLEAN :
          IF ok /\ store # NoRecord
          THEN /\ store' = TopoWrite(RegisterFields(store, loc["main"].hostname,
                                 loc["main"].ipAddr, args.mysqlPort, args.vtPort,
                                 args.vtsPort))
               /\ obs' = [obs EXCEPT !["main"].regPre = store, !["main"].extAtReg = nExt,
                                      !["main"].storeWrites = @ + 1, !["main"].wrote = "ok"]
               /\ loc' = [loc EXCEPT !["main"].ret = <<"tab_lock", "s_validate">>]
               /\ pc' = [pc EXCEPT !["main"] = "read_get"]
          ELSE /\ loc' = [loc EXCEPT !["main"].err = <<"update failed">>]
               /\ pc' = [pc EXCEPT !["main"] = "s_fail"]
               /\ obs' = [obs EXCEPT !["main"].storeWrites = @ + 1, !["main"].wrote = "failed"]
               /\ store' = store
    /\ UNCHANGED <<hsVars, hcVars, heap, actionMutex, mutex, _tablet, args, nRefresh, nExt>>

\* What verifyTopology returns for the cached record tablet, given whether
\* topo.Validate found the topology consistent.
VerifyTopologyStrict(tablet, valid) ==
    IF tablet = Nil THEN <<"agent._tablet is nil">>
    ELSE IF valid THEN NoErr ELSE <<"topology inconsistent">>
VerifyTopology(tablet, valid) ==
    IF tablet = Nil THEN <<"agent._tablet is nil">> ELSE NoErr

\* verifyTopology: nil check of agent.Tablet(), then topo.Validate, whose error
\* is only logged; then verifyServingAddrs starts with agent.Tablet().
StartValidate ==
    /\ pc["main"] = "s_validate"
    /\ \E ok \in BOOLEAN :
          IF VerifyTopology(loc["main"].acc, ok) # NoErr
          THEN /\ loc' = [loc EXCEPT !["main"].err = VerifyTopology(loc["main"].acc, ok)]
               /\ pc' = [pc EXCEPT !["main"] = "s_fail"]
               /\ obs' = [obs EXCEPT !["main"].validate =
                              IF loc["main"].acc = Nil THEN @
                              ELSE IF ok THEN "ok" ELSE "failed"]
          ELSE /\ loc' = [loc EXCEPT !["main"].ret = <<"s_serving">>]
               /\ pc' = [pc EXCEPT !["main"] = "tab_lock"]
               /\ obs' = [obs EXCEPT !["main"].validate = IF ok THEN "ok" ELSE "failed"]
    /\ UNCHANGED <<hsVars, hcVars, store, heap, actionMutex, mutex, _tablet, args, nRefresh, nExt>>

\* verifyServingAddrs: nothing to do unless the tablet runs the query service.
StartServing ==
    /\ pc["main"] = "s_serving"
    /\ IF IsRunningQueryService(Deref(heap, loc["main"].acc))
       THEN /\ loc' = [loc EXCEPT !["main"].ret = <<"s_endpoint">>]
            /\ pc' = [pc EXCEPT !["main"] = "tab_lock"]
            /\ obs' = obs
       ELSE /\ loc' = loc
            /\ pc' = [pc EXCEPT !["main"] = "s_served"]
            /\ obs' = [obs EXCEPT !["main"].vsa = "skipped"]
    /\ UNCHANGED <<hsVars, hcVars, store, heap, actionMutex, mutex, _tablet, args, nRefresh, nExt>>

\* verifyServingAddrs: agent.Tablet().Tablet.EndPoint().
StartEndPoint ==
    /\ pc["main"] = "s_endpoint"
    /\ \E ok \in BOOLEAN :
          IF ok
          THEN /\ loc' = [loc EXCEPT !["main"].ret = <<"s_publish">>]
               /\ pc' = [pc EXCEPT !["main"] = "tab_lock"]
               /\ obs' = obs
          ELSE /\ loc' = [loc EXCEPT !["main"].err = <<"invalid portmap">>]
               /\ pc' = [pc EXCEPT !["main"] = "s_served"]
               /\ obs' = [obs EXCEPT !["main"].vsa = "failed"]
    /\ UNCHANGED <<hsVars, hcVars, store, heap, actionMutex, mutex, _tablet, args, nRefresh, nExt>>

\* verifyServingAddrs: agent.TopoServer.UpdateTabletEndpoint(cell, keyspace,
\* shard, type, addr), its arguments read through agent.Tablet().
StartPublish ==
    /\ pc["main"] = "s_publish"
    /\ \E ok \in BOOLEAN :
          /\ loc' = [loc EXCEPT !["main"].err =
                        IF ok THEN NoErr ELSE <<"endpoint update failed">>]
          /\ obs' = [obs EXCEPT !["main"].vsa = IF ok THEN "ok" ELSE "failed"]
    /\ pc' = [pc EXCEPT !["main"] = "s_served"]
    /\ UNCHANGED <<hsVars, hcVars, store, heap, actionMutex, mutex, _tablet, args, nRefresh, nExt>>

\* verifyServingAddrs has returned: Start returns its error, or goes on to
\* oldTablet := &topo.Tablet{} and updateState.
StartServed ==
    /\ pc["main"] = "s_served"
    /\ LET next == StartAfterServingAddrs(loc["main"].err) IN
          /\ pc' = [pc EXCEPT !["main"] = next.pc]
          /\ loc' = [loc EXCEPT !["main"].err = next.err,
                                !["main"].oldTablet = StartOldTablet(_tablet),
                                !["main"].ret = <<"cb_enter", "s_updated">>]
    /\ UNCHANGED <<hsVars, hcVars, store, heap, actionMutex, mutex, _tablet, args, obs,
                   nRefresh, nExt>>

\* updateState has returned: its error is logged, and Start returns nil.
StartUpdated ==
    /\ pc["main"] = "s_updated"
    /\ Return("main", "s_ret", StartAfterUpdateState(loc["main"].err))
    /\ UNCHANGED <<hsVars, hcVars, store, actionMutex, mutex, _tablet, args, obs, nRefresh, nExt>>

\* The agent exists: Start has returned nil.
Running == pc["main"] = "s_ret" /\ loc["main"].err = NoErr

\* ----------------------------------------------------------- refreshTablet

Reasons == {"finalize-reparent", "ChangeType"}
MysqlPorts == {3306, 3307}

\* checkTabletMysqlPort: mport == tablet.Portmap["mysql"] fails.
PortDrifted(mport, tablet) == mport # PortmapGet(tablet.Portmap, "mysql")

\* checkTabletMysqlPort: tablet.Portmap["mysql"] = mport.
WithMysqlPortUnchanged(tablet, mport) == tablet
WithMysqlPort(tablet, mport) == [tablet EXCEPT !.Portmap = PortmapPut(@, "mysql", mport)]

\* refreshTablet when readTablet has failed with the error cause.
RereadFailedLogged(reason, cause) == [pc |-> "upd_lock", err |-> NoErr]
RereadFailed(reason, cause) ==
    [pc |-> "r_ret", err |-> <<"Failed rereading tablet after", reason, ":">> \o cause]

\* Whether an RPC may enter: actionMutex lets one action run at a time.
ActionMutexIgnored == TRUE
ActionMutexFree == actionMutex = "free"

\* An RPC that changes the tablet takes actionMutex and, its action done, calls
\* refreshTablet(ctx, reason), which starts with agent.Tablet().
ActionLock(t) ==
    /\ pc[t] = "idle"
    /\ Running
    /\ ActionMutexFree
    /\ nRefresh < MaxRefresh
    /\ actionMutex' = t
    /\ nRefresh' = nRefresh + 1
    /\ \E reason \in Reasons :
          /\ loc' = [loc EXCEPT ![t] = [LocInit EXCEPT !.reason = reason, !.ret = <<"r_old">>]]
          /\ obs' = [obs EXCEPT ![t] = [ObsInit EXCEPT !.reason = reason]]
    /\ pc' = [pc EXCEPT ![t] = "tab_lock"]
    /\ UNCHANGED <<hsVars, hcVars, store, heap, mutex, _tablet, args, nExt>>

\* oldTablet := agent.Tablet().Tablet, then readTablet.
RefreshOld(t) ==
    /\ pc[t] = "r_old"
    /\ loc' = [loc EXCEPT ![t].oldTablet = loc[t].acc, ![t].ret = <<"r_port">>,
                          ![t].retErr = "r_readfail"]
    /\ pc' = [pc EXCEPT ![t] = "read_get"]
    /\ UNCHANGED <<hsVars, hcVars, store, heap, actionMutex, mutex, _tablet, args, obs,
                   nRefresh, nExt>>

\* readTablet has returned an error.
RefreshReadFailed(t) ==
    /\ pc[t] = "r_readfail"
    /\ LET next == RereadFailed(loc[t].reason, loc[t].err) IN
          IF next.pc = "r_ret"
          THEN Return(t, "r_ret", next.err)
          ELSE /\ pc' = [pc EXCEPT ![t] = next.pc]
               /\ loc' = [loc EXCEPT ![t].err = next.err,
                                     ![t].ret = <<"cb_enter", "r_updated">>]
               /\ heap' = heap
    /\ UNCHANGED <<hsVars, hcVars, store, actionMutex, mutex, _tablet, args, obs, nRefresh, nExt>>

\* checkTabletMysqlPort(ctx, ti): agent.MysqlDaemon.GetMysqlPort(), the
\* comparison with ti.Portmap["mysql"], and the assignment to it.
RefreshPort(t) ==
    /\ pc[t] = "r_port"
    /\ \E ok \in BOOLEAN, mport \in MysqlPorts :
          IF ok /\ PortDrifted(mport, heap[loc[t].ti])
          THEN /\ heap' = [heap EXCEPT ![loc[t].ti] = WithMysqlPort(@, mport)]
               /\ loc' = [loc EXCEPT ![t].mport = mport]
               /\ obs' = [obs EXCEPT ![t].portChecks = @ + 1, ![t].mport = mport]
               /\ pc' = [pc EXCEPT ![t] = "r_write"]
          ELSE /\ heap' = heap
               /\ loc' = [loc EXCEPT ![t].updated = Nil,
                                     ![t].ret = <<"cb_enter", "r_updated">>]
               /\ obs' = [obs EXCEPT ![t].portChecks = @ + 1]
               /\ pc' = [pc EXCEPT ![t] = "upd_lock"]
    /\ UNCHANGED <<hsVars, hcVars, store, actionMutex, mutex, _tablet, args, nRefresh, nExt>>

\* checkTabletMysqlPort: topo.UpdateTablet(ctx, agent.TopoServer, tablet), which
\* writes the record if the store still holds the version that was read.
RefreshWrite(t) ==
    /\ pc[t] = "r_write"
    /\ \E ok \in BOOLEAN :
          IF ok /\ store # NoRecord /\ store.version = heap[loc[t].ti].version
          THEN /\ store' = TopoWrite(heap[loc[t].ti])
               /\ heap' = [heap EXCEPT ![loc[t].ti].version = store.version + 1]
               /\ loc' = [loc EXCEPT ![t].updated = loc[t].ti,
                                     ![t].ret = <<"upd_lock", "cb_enter", "r_updated">>]
               /\ obs' = [obs EXCEPT ![t].wrote = "ok", ![t].extAtWrite = nExt,
                                     ![t].storeWrites = @ + 1]
               /\ pc' = [pc EXCEPT ![t] = "set_lock"]
          ELSE /\ UNCHANGED <<store, heap>>
               /\ loc' = [loc EXCEPT ![t].updated = Nil,
                                     ![t].ret = <<"cb_enter", "r_updated">>]
               /\ obs' = [obs EXCEPT ![t].wrote = "failed", ![t].storeWrites = @ + 1]
               /\ pc' = [pc EXCEPT ![t] = "upd_lock"]
    /\ UNCHANGED <<hsVars, hcVars, actionMutex, mutex, _tablet, args, nRefresh, nExt>>

\* The record refreshTablet installs after a write-back: updatedTablet.
RefreshInstalledOld(l) == l.oldTablet
RefreshInstalled(l) == l.updated

\* refreshTablet: agent.mutex.Lock(); agent._tablet = updatedTablet.
RefreshSet(t) ==
    /\ pc[t] = "set_lock"
    /\ mutex = "free"
    /\ mutex' = t
    /\ _tablet' = RefreshInstalled(loc[t])
    /\ pc' = [pc EXCEPT ![t] = "set_unlock"]
    /\ UNCHANGED <<hsVars, hcVars, store, heap, actionMutex, args, loc, obs, nRefresh, nExt>>

\* updateState has returned: refreshTablet returns its error.
RefreshUpdated(t) ==
    /\ pc[t] = "r_updated"
    /\ Return(t, "r_ret", loc[t].err)
    /\ UNCHANGED <<hsVars, hcVars, store, actionMutex, mutex, _tablet, args, obs, nRefresh, nExt>>

\* The RPC is over: actionMutex.Unlock().
ActionUnlock(t) ==
    /\ pc[t] = "r_ret"
    /\ actionMutex = t
    /\ actionMutex' = "free"
    /\ pc' = [pc EXCEPT ![t] = "idle"]
    /\ loc' = [loc EXCEPT ![t] = LocInit]
    /\ obs' = [obs EXCEPT ![t] = ObsInit]
    /\ UNCHANGED <<hsVars, hcVars, store, heap, mutex, _tablet, args, nRefresh, nExt>>

\* Where a thread is when its next step is a call that can block outside the
\* agent: topo.GetTablet, the hostname and address lookups, UpdateTabletFields,
\* topo.Validate, UpdateTabletEndpoint, MysqlDaemon.GetMysqlPort,
\* topo.UpdateTablet, and the state-change callback.
ExternalCallLabels ==
    {"read_get", "s_resolve", "s_register", "s_validate", "s_publish", "r_port",
     "r_write", "cb_enter", "in_cb"}

\* Where a thread is when its next step is agent.mutex.Lock().
MutexLockLabels == {"read_set", "tab_lock", "upd_lock", "set_lock", "h_lock"}

\* ------------------------------------------------ read-only accessors

\* The accessors a reader calls; Tablet() is called by Start and refreshTablet.
Accessors == {"Healthy", "HealthStreamMapSize"}

\* A thread calls one of the accessors that take no actionMutex; the agent is
\* handed out only once Start has returned nil.
ReaderCall(t) ==
    /\ pc[t] = "idle"
    /\ Running
    /\ \E m \in Accessors :
          /\ pc' = [pc EXCEPT ![t] = IF m = "Healthy" THEN "h_lock" ELSE "ms_lock"]
          /\ loc' = [loc EXCEPT ![t] = [LocInit EXCEPT !.ret = <<"a_ret">>]]
          /\ obs' = [obs EXCEPT ![t] = [ObsInit EXCEPT !.method = m]]
    /\ UNCHANGED <<hsVars, hcVars, store, heap, actionMutex, mutex, _tablet, args,
                   nRefresh, nExt>>

\* HealthStreamMapSize: agent.healthStreamMutex.Lock(); defer Unlock(); the
\* length is read for the return.
MapSizeLock(t) ==
    /\ pc[t] = "ms_lock"
    /\ healthStreamMutex = "free"
    /\ healthStreamMutex' = t
    /\ obs' = [obs EXCEPT ![t].size = HealthStreamMapSize]
    /\ pc' = [pc EXCEPT ![t] = "ms_unlock"]
    /\ UNCHANGED <<healthStreamIndex, healthStreamMap, chans, bpc, hsr, todo, nBcast,
                   outcome, history, unsubAt, orderVars, hcVars, store, heap, actionMutex, mutex,
                   _tablet, args, loc, nRefresh, nExt>>

\* HealthStreamMapSize: the deferred agent.healthStreamMutex.Unlock().
MapSizeUnlock(t) ==
    /\ pc[t] = "ms_unlock"
    /\ healthStreamMutex = t
    /\ healthStreamMutex' = "free"
    /\ pc' = [pc EXCEPT ![t] = Head(loc[t].ret)]
    /\ loc' = [loc EXCEPT ![t].ret = Tail(@)]
    /\ UNCHANGED <<healthStreamIndex, healthStreamMap, chans, bpc, hsr, todo, nBcast,
                   outcome, history, unsubAt, orderVars, hcVars, store, heap, actionMutex, mutex,
                   _tablet, args, obs, nRefresh, nExt>>

\* The accessor has returned to its caller.
ReaderReturn(t) ==
    /\ pc[t] = "a_ret"
    /\ Return(t, "idle", NoErr)
    /\ UNCHANGED <<hsVars, hcVars, store, actionMutex, mutex, _tablet, args, obs,
                   nRefresh, nExt>>

\* ------------------------------------------------------- health check

\* What a health check can find: healthy with some replication delay, or not.
HealthResults ==
    {[healthy |-> NoErr, delay |-> 0],
     [healthy |-> <<"replication lag too high">>, delay |-> 30]}

\* The agent's health before any health check has run.
HealthyInitialNil == NoErr
HealthyInitial == <<"healthcheck not run yet">>

\* A health check stores its result: agent.mutex.Lock(); agent._healthy and
\* agent._replicationDelay are assigned.
HealthCheckStore(b) ==
    /\ bpc[b] = "idle"
    /\ Running
    /\ mutex = "free"
    /\ mutex' = b
    /\ \E r \in HealthResults :
          /\ <<_healthy, _replicationDelay>> # <<r.healthy, r.delay>>
          /\ _healthy' = r.healthy
          /\ _replicationDelay' = r.delay
    /\ healthStored' = TRUE
    /\ bpc' = [bpc EXCEPT ![b] = "hc_unlock"]
    /\ UNCHANGED <<healthStreamMutex, healthStreamIndex, healthStreamMap, chans, hsr,
                   todo, nBcast, outcome, history, unsubAt, orderVars, store, heap, actionMutex,
                   _tablet, args, pc, loc, obs, nRefresh, nExt>>

\* The health check's agent.mutex.Unlock().
HealthCheckUnlock(b) ==
    /\ bpc[b] = "hc_unlock"
    /\ mutex = b
    /\ mutex' = "free"
    /\ bpc' = [bpc EXCEPT ![b] = "idle"]
    /\ UNCHANGED <<healthStreamMutex, healthStreamIndex, healthStreamMap, chans, hsr,
                   todo, nBcast, outcome, history, unsubAt, orderVars, hcVars, store, heap,
                   actionMutex, _tablet, args, pc, loc, obs, nRefresh, nExt>>

\* ----------------------------------------------------- other processes

\* Another process changes the tablet's type in the topology store.
ExtWrite ==
    /\ nExt < MaxExt
    /\ store # NoRecord
    /\ store' = TopoWrite([store EXCEPT !.Type = IF @ = "replica" THEN "spare" ELSE "replica"])
    /\ nExt' = nExt + 1
    /\ UNCHANGED <<hsVars, hcVars, heap, actionMutex, mutex, _tablet, args, pc, loc, obs, nRefresh>>

\* Another process deletes the tablet record (DeleteTablet).
ExtDelete ==
    /\ nExt < MaxExt
    /\ store # NoRecord
    /\ store' = NoRecord
    /\ nExt' = nExt + 1
    /\ UNCHANGED <<hsVars, hcVars, heap, actionMutex, mutex, _tablet, args, pc, loc, obs, nRefresh>>

\* ------------------------------------------------------------ specifications

StoredPorts == [x \in {"mysql", "vt", "vts"} |->
                   IF x = "mysql" THEN 3306 ELSE IF x = "vt" THEN 15000 ELSE 15001]

\* The record InitTablet or an earlier run of the tablet left in the store, and
\* the arguments of Start.
InitTablet ==
    /\ store \in {[Hostname |-> "old-host", IPAddr |-> "10.0.0.9", Portmap |-> pm,
                   Type |-> ty, Keyspace |-> "ks1", version |-> 1] :
                       pm \in {Empty, StoredPorts}, ty \in {"replica", "spare"}}
    /\ heap = [o \in ObjIds |-> ZeroTablet]
    /\ actionMutex = "free"
    /\ mutex = "free"
    /\ _tablet = Nil
    /\ args \in [hostname : {"host-a"}, ipAddr : {"10.0.0.1"}, mysqlPort : {0} \cup MysqlPorts,
                 vtPort : {15002}, vtsPort : {0, 15003}]
    /\ pc = [t \in Threads |-> IF t = "main" THEN "s_begin" ELSE "idle"]
    /\ loc = [t \in Threads |-> LocInit]
    /\ obs = [t \in Threads |-> ObsInit]
    /\ nRefresh = 0
    /\ nExt = 0
    /\ _healthy = HealthyInitial
    /\ _replicationDelay = 0
    /\ healthStored = FALSE

\* One store and one call of Start, for the runs that are about the health stream.
InitTabletOne ==
    /\ InitTablet
    /\ store.Portmap = Empty
    /\ store.Type = "spare"
    /\ args.mysqlPort = 0
    /\ args.vtsPort = 0

\* One store, whose record is of a serving type, and one call of Start, for the
\* runs that are about the constructed agent as a whole.
InitAgentOne ==
    /\ InitTablet
    /\ store.Portmap = StoredPorts
    /\ store.Type = "replica"
    /\ args.mysqlPort = 3306
    /\ args.vtsPort = 0

NextTablet ==
    \/ StartCall
    \/ StartFail
    \/ StartResolve
    \/ StartRegister
    \/ StartValidate
    \/ StartServing
    \/ StartEndPoint
    \/ StartPublish
    \/ StartServed
    \/ StartUpdated
    \/ \E t \in Threads : ReadTabletGet(t)
    \/ \E t \in Threads : ReadTabletSet(t)
    \/ \E t \in Threads : TabletLock(t)
    \/ \E t \in Threads : UpdateStateLock(t)
    \/ \E t \in Threads : MutexUnlock(t)
    \/ \E t \in Threads : CallbackEnter(t)
    \/ \E t \in Threads : CallbackReturn(t)
    \/ \E t \in Rpcs : ActionLock(t)
    \/ \E t \in Rpcs : RefreshOld(t)
    \/ \E t \in Rpcs : RefreshReadFailed(t)
    \/ \E t \in Rpcs : RefreshPort(t)
    \/ \E t \in Rpcs : RefreshWrite(t)
    \/ \E t \in Rpcs : RefreshSet(t)
    \/ \E t \in Rpcs : RefreshUpdated(t)
    \/ \E t \in Rpcs : ActionUnlock(t)
    \/ ExtWrite
    \/ ExtDelete

NextHealth ==
    \/ Subscribe
    \/ \E h \in 0 .. (MaxSubscribe - 1) : Unsubscribe(h)
    \/ \E c \in 0 .. (MaxSubscribe - 1) : Receive(c)
    \/ \E b \in Bcasters : BroadcastCall(b)
    \/ \E b \in Bcasters : BroadcastLock(b)
    \/ \E b \in Bcasters : BroadcastSend(b)
    \/ \E b \in Bcasters : BroadcastUnlock(b)

\* The health stream alone, beside an agent whose tablet state stays as it is.
InitHealthOnly == InitHealth /\ InitTabletOne

SpecHealth == InitHealthOnly /\ [][NextHealth]_vars

\* A thread that can run does run. Nothing obliges a subscriber to receive.
FairSpecHealth ==
    /\ SpecHealth
    /\ \A b \in Bcasters : WF_vars(BroadcastSend(b))
    /\ \A b \in Bcasters : WF_vars(BroadcastUnlock(b))

\* Start and refreshTablet alone, beside a health stream no one uses.
InitTabletOnly == InitHealth /\ InitTablet

SpecTablet == InitTabletOnly /\ [][NextTablet]_vars

\* The agent as a whole once it is constructed: Start, the RPCs and their
\* refreshTablet, the read-only accessors, the health check and the broadcast,
\* from one store and one call of Start, with no other process writing.
NextAgent ==
    \/ StartCall
    \/ StartFail
    \/ StartResolve
    \/ StartRegister
    \/ StartValidate
    \/ StartServing
    \/ StartEndPoint
    \/ StartPublish
    \/ StartServed
    \/ StartUpdated
    \/ \E t \in Threads : ReadTabletGet(t)
    \/ \E t \in Threads : ReadTabletSet(t)
    \/ \E t \in Threads : TabletLock(t)
    \/ \E t \in Threads : UpdateStateLock(t)
    \/ \E t \in Threads : MutexUnlock(t)
    \/ \E t \in Threads : CallbackEnter(t)
    \/ \E t \in Threads : CallbackReturn(t)
    \/ \E t \in AgentRpcs : ActionLock(t)
    \/ \E t \in AgentRpcs : RefreshOld(t)
    \/ \E t \in AgentRpcs : RefreshReadFailed(t)
    \/ \E t \in AgentRpcs : RefreshPort(t)
    \/ \E t \in AgentRpcs : RefreshWrite(t)
    \/ \E t \in AgentRpcs : RefreshSet(t)
    \/ \E t \in AgentRpcs : RefreshUpdated(t)
    \/ \E t \in AgentRpcs : ActionUnlock(t)
    \/ \E t \in Readers : ReaderCall(t)
    \/ \E t \in Readers : HealthyLock(t)
    \/ \E t \in Readers : MapSizeLock(t)
    \/ \E t \in Readers : MapSizeUnlock(t)
    \/ \E t \in Readers : ReaderReturn(t)
    \/ \E b \in HealthCheckers : HealthCheckStore(b)
    \/ \E b \in HealthCheckers : HealthCheckUnlock(b)
    \/ \E b \in HealthCheckers : BroadcastCall(b)
    \/ \E b \in HealthCheckers : BroadcastLock(b)
    \/ \E b \in HealthCheckers : BroadcastUnlock(b)

InitAgent == InitHealth /\ InitAgentOne

SpecAgent == InitAgent /\ [][NextAgent]_vars

\* Start and the RPC threads alone, from one store and one call of Start, with
\* no other process writing.
NextActions ==
    \/ StartCall
    \/ StartFail
    \/ StartResolve
    \/ StartRegister
    \/ StartValidate
    \/ StartServing
    \/ StartEndPoint
    \/ StartPublish
    \/ StartServed
    \/ StartUpdated
    \/ \E t \in Threads : ReadTabletGet(t)
    \/ \E t \in Threads : ReadTabletSet(t)
    \/ \E t \in Threads : TabletLock(t)
    \/ \E t \in Threads : UpdateStateLock(t)
    \/ \E t \in Threads : MutexUnlock(t)
    \/ \E t \in Threads : CallbackEnter(t)
    \/ \E t \in Threads : CallbackReturn(t)
    \/ \E t \in Rpcs : ActionLock(t)
    \/ \E t \in Rpcs : RefreshOld(t)
    \/ \E t \in Rpcs : RefreshReadFailed(t)
    \/ \E t \in Rpcs : RefreshPort(t)
    \/ \E t \in Rpcs : RefreshWrite(t)
    \/ \E t \in Rpcs : RefreshSet(t)
    \/ \E t \in Rpcs : RefreshUpdated(t)
    \/ \E t \in Rpcs : ActionUnlock(t)

SpecActions == InitAgent /\ [][NextActions]_vars

Init == InitHealth /\ InitTablet

Next == NextHealth \/ NextTablet \/ NextAgent

Spec == Init /\ [][Next]_vars

\* ------------------------------------------------------------------ claims

Registered == {healthStreamMap[h] : h \in DOMAIN healthStreamMap}

\* C1: a broadcast that holds the health-stream lock finishes its pass over the
\* registry and releases the lock, whatever the subscribers do: they may leave
\* their channels full for ever (no fairness is assumed of Receive).
C1_BroadcastCompletes ==
    \A b \in Bcasters : (bpc[b] = "send") ~> (bpc[b] = "idle" /\ healthStreamMutex # b)

\* A broadcast is in its loop and a channel it has still to visit is full.
C1_Witness ==
    \E b \in Bcasters :
        /\ bpc[b] = "send"
        /\ \E c \in todo[b] : Len(chans[c]) = ChanCap

\* C2: each iteration of a broadcast visits one registered channel it has not
\* visited before; a channel with free capacity gets the reply appended once, a
\* full channel is left as it is, and no other channel changes. When the
\* broadcast releases the lock it has visited every registered channel, so a full
\* channel stops the delivery to no other subscriber.
C2_Visit(b) ==
    LET seen == todo[b] \ todo'[b] IN
    /\ Cardinality(seen) = 1
    /\ todo'[b] \subseteq todo[b]
    /\ \A c \in seen :
          /\ c \in Registered
          /\ c \notin DOMAIN outcome[b]
          /\ chans'[c] = IF Len(chans[c]) < ChanCap
                         THEN Append(chans[c], hsr[b])
                         ELSE chans[c]
          /\ \A i \in 1 .. Len(chans[c]) : chans[c][i] # hsr[b]
    /\ \A c \in DOMAIN chans \ seen : chans'[c] = chans[c]

C2_BestEffortDelivery ==
    [][\A b \in Bcasters :
          /\ (bpc[b] = "send" /\ todo'[b] # todo[b]) => C2_Visit(b)
          /\ (bpc[b] = "send" /\ bpc'[b] = "idle") => DOMAIN outcome[b] = Registered]_vars

\* One broadcast has found one channel full and has delivered to another.
C2_Witness ==
    \E b \in Bcasters : \E c, d \in DOMAIN outcome[b] :
        /\ bpc[b] = "send"
        /\ todo[b] = {}
        /\ outcome[b][c] = "dropped"
        /\ outcome[b][d] = "sent"
        /\ hsr[b] \in {chans[d][i] : i \in 1 .. Len(chans[d])}

\* C3: the channel of a handle whose Unsubscribe has returned holds no reply of
\* a broadcast that was called after that return (a reply is the number of its
\* call). Every enqueue leads to a state with the reply on the channel, so the
\* invariant speaks of every enqueue.
C3_NoDeliveryAfterUnsubscribe ==
    \A c \in DOMAIN unsubAt : \A i \in 1 .. Len(chans[c]) : chans[c][i] <= unsubAt[c]

\* A broadcast called after an Unsubscribe returned has delivered to another
\* subscriber and is over.
C3_Witness ==
    \E c \in DOMAIN unsubAt : \E d \in DOMAIN chans \ {c} :
        /\ healthStreamMutex = "free"
        /\ \E i \in 1 .. Len(chans[d]) : chans[d][i] > unsubAt[c]

\* C4: no handle is returned by two Subscribe calls, and the counter never
\* decreases.
C4_HandlesDistinct ==
    /\ \A i, j \in 1 .. Len(history) :
          (i < j /\ history[i][1] = "sub" /\ history[j][1] = "sub")
              => history[i][2] # history[j][2]
    /\ \A i \in 1 .. Len(history) : history[i][1] = "sub" => history[i][2] < healthStreamIndex

\* A Subscribe has returned after the Unsubscribe of an earlier handle.
C4_Witness ==
    \E i, j \in 1 .. Len(history) :
        i < j /\ history[i][1] = "unsub" /\ history[j][1] = "sub"

\* What a finished refreshTablet of thread t saw and did.
Returned(t) == pc[t] = "r_ret"
ReadPort(t) == PortmapGet(obs[t].readRec.Portmap, "mysql")
Drifted(t) == obs[t].mport # 0 /\ obs[t].mport # ReadPort(t)
CachedPort == PortmapGet(Deref(heap, _tablet).Portmap, "mysql")
Contains(err, part) == \E i \in 1 .. Len(err) : err[i] = part

\* C5: when the daemon's port differs from the port of the record just read and
\* the write of the corrected record fails, then after refreshTablet the cached
\* record still has the port that was read, the callback was given a new record
\* with that port, and refreshTablet returns no error of the write (the only
\* error it may return is the callback's).
C5_OldPortKeptOnFailedWrite ==
    \A t \in Rpcs :
        (Returned(t) /\ Drifted(t) /\ obs[t].wrote = "failed")
            => /\ CachedPort = ReadPort(t)
               /\ Len(obs[t].cbs) = 1
               /\ PortmapGet(obs[t].cbs[1].new.Portmap, "mysql") = ReadPort(t)
               /\ loc[t].err \in {NoErr, <<"callback failed">>}

\* C6: when the daemon's port p differs from the port of the record just read
\* and the write of the corrected record succeeds, then after refreshTablet
\* (no other process having written since) the stored record and the cached
\* record have port p, and the callback was given a new record with port p.
C6_NewPortAfterWrite ==
    \A t \in Rpcs :
        (Returned(t) /\ Drifted(t) /\ obs[t].wrote = "ok" /\ obs[t].extAtWrite = nExt)
            => /\ store # NoRecord
               /\ PortmapGet(store.Portmap, "mysql") = obs[t].mport
               /\ CachedPort = obs[t].mport
               /\ Len(obs[t].cbs) = 1
               /\ PortmapGet(obs[t].cbs[1].new.Portmap, "mysql") = obs[t].mport

\* A refreshTablet has returned after a successful write of a drifted port.
C6_Witness ==
    \E t \in Rpcs :
        /\ Returned(t) /\ Drifted(t) /\ obs[t].wrote = "ok" /\ obs[t].extAtWrite = nExt
        /\ ReadPort(t) # 0

\* Start has just returned nil, and no other process wrote between Register and
\* Reload.
StartedUndisturbed ==
    /\ Running
    /\ nRefresh = 0
    /\ obs["main"].extAtReg = obs["main"].extAtReload

\* C7: after a successful Start with no write of another process between
\* Register and Reload, the cached record has the hostname, the IP address and
\* the port-map entries Start wrote (vt; mysql if known; vts if given, else
\* none), and its other fields and port-map entries are those the store held
\* right before the write.
C7_RegisterIsFieldScoped ==
    StartedUndisturbed =>
        LET t == Deref(heap, _tablet)
            pre == obs["main"].regPre
        IN /\ _tablet # Nil
           /\ t.Hostname = args.hostname
           /\ t.IPAddr = args.ipAddr
           /\ PortmapGet(t.Portmap, "vt") = args.vtPort
           /\ args.mysqlPort # 0 => PortmapGet(t.Portmap, "mysql") = args.mysqlPort
           /\ args.mysqlPort = 0 =>
                 /\ ("mysql" \in DOMAIN t.Portmap) = ("mysql" \in DOMAIN pre.Portmap)
                 /\ PortmapGet(t.Portmap, "mysql") = PortmapGet(pre.Portmap, "mysql")
           /\ IF args.vtsPort # 0
              THEN PortmapGet(t.Portmap, "vts") = args.vtsPort
              ELSE "vts" \notin DOMAIN t.Portmap
           /\ t.Type = pre.Type
           /\ t.Keyspace = pre.Keyspace

\* Start has returned nil over a record that had ports, a type and a keyspace.
C7_Witness ==
    /\ StartedUndisturbed
    /\ obs["main"].regPre.Portmap = StoredPorts
    /\ obs["main"].regPre.Hostname # args.hostname
    /\ obs["main"].regPre.Type = "spare"

\* C8: the Register step of Start sets the stored "mysql" entry to mysqlPort
\* when mysqlPort is not 0, and leaves it as it was (present with the same
\* value, or absent) when mysqlPort is 0.
C8_MysqlPortOnlyIfKnown ==
    [][(pc["main"] = "s_register" /\ pc'["main"] = "read_get") =>
          IF args.mysqlPort # 0
          THEN /\ "mysql" \in DOMAIN store'.Portmap
               /\ store'.Portmap["mysql"] = args.mysqlPort
          ELSE /\ ("mysql" \in DOMAIN store'.Portmap) = ("mysql" \in DOMAIN store.Portmap)
               /\ PortmapGet(store'.Portmap, "mysql") = PortmapGet(store.Portmap, "mysql")]_vars

\* Register has written with an unknown mysqlPort over a record that had one.
C8_Witness ==
    /\ pc["main"] = "read_get"
    /\ obs["main"].wrote = "ok"
    /\ args.mysqlPort = 0
    /\ PortmapGet(obs["main"].regPre.Portmap, "mysql") = 3306
    /\ store # NoRecord
    /\ PortmapGet(store.Portmap, "mysql") = 3306

\* C9: a refreshTablet whose re-read failed returns an error that contains the
\* reason, has not invoked the callback, and has neither checked the port nor
\* tried a write to the store.
C9_RereadFailureIsFatal ==
    \A t \in Rpcs :
        (Returned(t) /\ obs[t].readFailed)
            => /\ loc[t].err # NoErr
               /\ Contains(loc[t].err, obs[t].reason)
               /\ obs[t].cbs = <<>>
               /\ obs[t].portChecks = 0
               /\ obs[t].storeWrites = 0

\* refreshTablet("finalize-reparent") has returned after a not-found read.
C9_Witness ==
    \E t \in Rpcs :
        /\ Returned(t) /\ obs[t].readFailed
        /\ obs[t].reason = "finalize-reparent"
        /\ store = NoRecord

\* C10 as claimed: when verifyServingAddrs fails, Start still runs the initial
\* dispatch and returns nil.
C10_ServingAddrsFailureSwallowed ==
    (pc["main"] = "s_ret" /\ obs["main"].vsa = "failed")
        => /\ loc["main"].err = NoErr
           /\ Len(obs["main"].cbs) = 1

\* C10 as amended: when verifyServingAddrs fails, Start returns that error and
\* the initial dispatch does not run.
C10_ServingAddrsFailureIsFatal ==
    (pc["main"] = "s_ret" /\ obs["main"].vsa = "failed")
        => /\ loc["main"].err \in {<<"invalid portmap">>, <<"endpoint update failed">>}
           /\ obs["main"].cbs = <<>>
           /\ ~Running

\* Start has returned after a failed verifyServingAddrs.
C10_Witness ==
    /\ pc["main"] = "s_ret"
    /\ obs["main"].vsa = "failed"
    /\ obs["main"].validate # "none"

\* C11 as claimed: when the initial state-change dispatch run by Start returns
\* an error, Start returns an error and the agent is not created.
C11_DispatchFailureIsFatal ==
    [][(pc["main"] = "s_updated" /\ loc["main"].err # NoErr /\ pc'["main"] = "s_ret")
          => (loc'["main"].err # NoErr /\ ~Running')]_vars

\* C11 as amended: a Start that fails at a read, at the hostname resolution, at
\* Register or at verifyServingAddrs returns that error without dispatching and
\* the agent is not created; an error of the initial state-change dispatch is
\* only logged: Start returns nil and the agent is created.
C11_DispatchFailureIsLogged ==
    /\ [](pc["main"] = "s_fail" => loc["main"].err # NoErr)
    /\ []((pc["main"] = "s_ret" /\ (obs["main"].readFailed \/ obs["main"].wrote = "failed"
                                      \/ obs["main"].vsa = "failed"))
             => (loc["main"].err # NoErr /\ ~Running /\ obs["main"].cbs = <<>>))
    /\ [][/\ (pc["main"] = "s_fail" /\ pc'["main"] = "s_ret")
                => (loc'["main"].err = loc["main"].err /\ obs'["main"].cbs = <<>>)
          /\ (pc["main"] = "s_updated" /\ pc'["main"] = "s_ret")
                => (loc'["main"].err = NoErr /\ Running')]_vars

\* The initial dispatch of Start has returned an error to Start.
C11_Witness ==
    /\ pc["main"] = "s_updated"
    /\ loc["main"].err = <<"callback failed">>
    /\ Len(obs["main"].cbs) = 1

\* C12: Start invokes the state-change callback at most once, and only after
\* Register has written, the reload has been cached and verifyTopology and
\* verifyServingAddrs have completed without a fatal error; the old record it
\* passes is the empty record and the new one is the record the reload read,
\* with the hostname and the vt port Register wrote; a Start that has returned
\* nil has invoked it exactly once, one that has returned an error, never.
C12_InitialDispatchOnce ==
    LET o == obs["main"] IN
    /\ Len(o.cbs) <= 1
    /\ Len(o.cbs) = 1 =>
          /\ o.wrote = "ok"
          /\ o.validate \in {"ok", "failed"}
          /\ o.vsa \in {"ok", "skipped"}
          /\ o.cbs[1].old = ZeroTablet
          /\ o.cbs[1].new = o.readRec
          /\ o.cbs[1].new.Hostname = args.hostname
          /\ PortmapGet(o.cbs[1].new.Portmap, "vt") = args.vtPort
    /\ pc["main"] = "s_ret" => (Len(o.cbs) = 1) = (loc["main"].err = NoErr)

\* Start has returned nil after its one dispatch; the record it passed as new
\* was reloaded after an external write that followed Register.
C12_Witness ==
    /\ Running
    /\ Len(obs["main"].cbs) = 1
    /\ obs["main"].extAtReg = 0
    /\ obs["main"].extAtReload = 1
    /\ obs["main"].cbs[1].new.Type # obs["main"].regPre.Type

\* C17: once verifyTopology has run topo.Validate on a cached record, whatever
\* the result, Start fails only through verifyServingAddrs: a failed Validate
\* sends Start on to verifyServingAddrs, and when that succeeds Start runs the
\* initial dispatch and returns nil.
C17_ValidateFailureNotFatal ==
    LET o == obs["main"] IN
    /\ (o.validate # "none" /\ pc["main"] = "s_fail") => o.vsa = "failed"
    /\ (o.validate = "failed" /\ pc["main"] = "s_ret") =>
          /\ o.vsa # "none"
          /\ loc["main"].err \in {NoErr, <<"invalid portmap">>, <<"endpoint update failed">>}
          /\ o.vsa \in {"ok", "skipped"} => (loc["main"].err = NoErr /\ Len(o.cbs) = 1)

\* Start has returned nil after a failed topo.Validate and an endpoint update.
C17_Witness ==
    /\ Running
    /\ obs["main"].validate = "failed"
    /\ obs["main"].vsa = "ok"
    /\ Len(obs["main"].cbs) = 1

\* The threads whose invocation of the state-change callback is in progress.
InCallback == {t \in Threads : pc[t] = "in_cb"}

\* C15: at no time are two invocations of the state-change callback in
\* progress.
C15_CallbackNeverConcurrent == Cardinality(InCallback) <= 1

\* An RPC's refreshTablet is inside the callback while the other RPC thread has
\* a refresh left to run and is kept out by actionMutex.
C15_Witness ==
    \E t \in Rpcs, u \in Rpcs :
        /\ t # u
        /\ pc[t] = "in_cb"
        /\ pc[u] = "idle"
        /\ nRefresh < MaxRefresh
        /\ actionMutex = t

\* The version of the record Tablet() returns (0 while there is none).
CacheVersion == Deref(heap, _tablet).version

C20_InstalledRecordNeverModified ==
    [][\A o \in ObjIds : (_tablet = o /\ _tablet' = o) => heap'[o].Portmap = heap[o].Portmap]_vars

\* C18: a thread whose next step is a blocking external call (a read or write
\* of the topology store, a lookup, the port query, the callback) holds neither
\* agent.mutex nor healthStreamMutex, and whoever holds agent.mutex has done
\* one get or set and is right before its Unlock.
C18_NoLockAcrossExternalCall ==
    /\ \A t \in Threads :
          pc[t] \in ExternalCallLabels => (mutex # t /\ healthStreamMutex # t)
    /\ \A t \in Threads : mutex = t => pc[t] \in UnlockLabels

\* An RPC's refreshTablet is inside the callback while a reader holds
\* agent.mutex and the health check's broadcast holds healthStreamMutex.
C18_Witness ==
    \E t \in Rpcs :
        /\ pc[t] = "in_cb"
        /\ mutex = "a1"
        /\ healthStreamMutex = "b1"

\* Some step of thread t.
ThreadStep(t) ==
    \/ (t \in Threads /\ (\/ ReadTabletGet(t) \/ ReadTabletSet(t) \/ TabletLock(t)
                          \/ UpdateStateLock(t) \/ MutexUnlock(t) \/ CallbackEnter(t)
                          \/ CallbackReturn(t)))
    \/ (t \in Rpcs /\ (\/ RefreshOld(t) \/ RefreshReadFailed(t) \/ RefreshPort(t)
                       \/ RefreshWrite(t) \/ RefreshSet(t) \/ RefreshUpdated(t)
                       \/ ActionUnlock(t)))
    \/ (t \in Readers /\ (\/ HealthyLock(t) \/ MapSizeLock(t) \/ MapSizeUnlock(t)
                          \/ ReaderReturn(t) \/ ReaderCall(t)))
    \/ (t \in Bcasters /\ (\/ HealthCheckUnlock(t) \/ BroadcastSend(t)
                           \/ BroadcastUnlock(t)))

\* C19: no thread holds agent.mutex and healthStreamMutex together; whoever
\* holds one of the two can take its next step, so it waits for no lock; and a
\* thread that holds actionMutex can take its next step unless that step is
\* agent.mutex.Lock() and another thread, which can take its next step, holds
\* agent.mutex. So no set of threads waits for each other.
C19_NoDeadlock ==
    /\ \A t \in Threads \cup Bcasters : ~(mutex = t /\ healthStreamMutex = t)
    /\ \A t \in Threads \cup Bcasters :
          (mutex = t \/ healthStreamMutex = t) => ENABLED ThreadStep(t)
    /\ \A t \in Threads :
          actionMutex = t =>
             \/ ENABLED ThreadStep(t)
             \/ pc[t] \in MutexLockLabels /\ mutex \notin {"free", t}

\* An RPC thread that holds actionMutex waits for agent.mutex, which the health
\* check holds, while a reader holds healthStreamMutex.
C19_Witness ==
    \E t \in Rpcs :
        /\ actionMutex = t
        /\ pc[t] \in MutexLockLabels
        /\ mutex = "b1"
        /\ healthStreamMutex = "a1"

\* C13: as long as no health check has stored a result, agent._healthy is the
\* error "healthcheck not run yet", and a Healthy() that read the fields before
\* any result was stored returns that error.
C13_UnhealthyUntilFirstCheck ==
    /\ ~healthStored => _healthy = <<"healthcheck not run yet">>
    /\ \A t \in Readers :
          (pc[t] \in {"h_unlock", "a_ret"} /\ obs[t].method = "Healthy"
                /\ ~obs[t].storedAtRead)
             => (obs[t].healthy # NoErr /\ obs[t].healthy = <<"healthcheck not run yet">>)

\* Healthy() is returning what it read before any health check result was
\* stored, after Start, a refreshTablet and a broadcast.
C13_Witness ==
    \E t \in Readers :
        /\ pc[t] = "h_unlock"
        /\ ~obs[t].storedAtRead
        /\ ~healthStored
        /\ Running
        /\ nRefresh >= 1
        /\ nBcast >= 1

\* The replies of the broadcasts that hold the lock and have not yet visited c.
Pending(c) == {hsr[b] : b \in {x \in Bcasters : bpc[x] = "send" /\ c \in todo[x]}}

\* The replies a subscriber on channel c is due: those of the broadcasts that
\* have visited c, in the order in which the broadcasts took the lock.
Due(c) == LET Visited(r) == r \notin Pending(c) IN SelectSeq(lockOrder, Visited)

====
